---- MODULE Spec2Model ----
(***************************************************************************)
(* Model of the OpenF1 client of F1Webapp: the key resolver                *)
(* (getMeetingKey / getSessionKey), the telemetry projections              *)
(* (fetchTelemetrySpeed .. fetchTelemetryDRS, fetchCarData) and the        *)
(* multi-driver lap-time merge (fetchLapTimes).                            *)
(*                                                                         *)
(* One client runs one exported function at a time.  Every `await fetch`   *)
(* is a point where the client is suspended with its request in flight;    *)
(* the upstream answers with any HTTP status and any body, or the fetch    *)
(* rejects.  An action is the code that runs between two suspensions.      *)
(***************************************************************************)
EXTENDS Integers, Sequences, FiniteSets, TLC

(* ---------------------------- bounds ----------------------------------- *)
MaxCalls == 2
MaxList == 2
MaxSamples == 2
MaxLaps == 2
MaxDrivers == 2

(* ------------------------- JSON values --------------------------------- *)
\* Every JSON / JS value has the same record shape, so that values of
\* different JS types can be compared (=== never coerces).
Num(n) == [t |-> "number", n |-> n, s |-> ""]
Str(x) == [t |-> "string", n |-> 0, s |-> x]
Null == [t |-> "null", n |-> 0, s |-> ""]
Undefined == [t |-> "undefined", n |-> 0, s |-> ""]

\* p.field on a parsed JSON object: undefined when the field is absent.
Get(obj, field) == IF field \in DOMAIN obj THEN obj[field] ELSE Undefined

\* a === b
StrictEquals(a, b) == a = b

\* a == b for the operand pairs the code can meet (number against numeric
\* string); kept for comparison with ===.
LooseEquals(a, b) ==
  \/ a = b
  \/ a.t = "number" /\ b.t = "string" /\ b.s = "1" /\ a.n = 1
  \/ a.t = "string" /\ b.t = "number" /\ a.s = "1" /\ b.n = 1

(* --------------------- strings as character sequences ------------------ *)
LowerChar(c) ==
  CASE c = "A" -> "a"
    [] c = "B" -> "b"
    [] c = "X" -> "x"
    [] OTHER -> c

\* String.prototype.toLowerCase
toLowerCase(str) == [i \in 1..Len(str) |-> LowerChar(str[i])]

\* String.prototype.includes: frag occurs as a contiguous substring.
includes(str, frag) ==
  \E i \in 0..(Len(str) - Len(frag)) :
    \A j \in 1..Len(frag) : str[i + j] = frag[j]

\* m.name.toLowerCase().includes(event.toLowerCase())
NameMatches(name, frag) == includes(toLowerCase(name), toLowerCase(frag))

(* ------------------------- upstream universe --------------------------- *)
Names == { <<"B", "a">>, <<"a", "b">> }
EventFragments == { <<"b", "A">>, <<"x">> }
SessionFragments == { <<"A">>, <<"x">> }
Years == { 2024 }
DriverSet == { "1", "2" }
Keys == { 1, 2 }
LapNumbers == { 1, 2 }
Statuses == { 200, 500 }

RECURSIVE SeqsUpTo(_, _)
SeqsUpTo(S, n) ==
  IF n = 0 THEN { <<>> }
  ELSE LET shorter == SeqsUpTo(S, n - 1)
       IN shorter \cup { Append(s, x) : s \in { q \in shorter : Len(q) = n - 1 }, x \in S }

MeetingSet == { [name |-> nm, meeting_key |-> k] : nm \in Names, k \in Keys }
SessionSet == { [name |-> nm, session_key |-> k] : nm \in Names, k \in Keys }

\* A response body: a JSON array, some other JSON value, or text that is
\* not JSON at all.
ArrayBody(items) == [json |-> "array", items |-> items]
ObjectBody == [json |-> "object", items |-> <<>>]
MalformedBody == [json |-> "malformed", items |-> <<>>]

\* status 0: the fetch promise rejected (no HTTP response).
NetworkError == [status |-> 0, body |-> MalformedBody]

Responses(arrays) ==
  { [status |-> st, body |-> ArrayBody(a)] : st \in Statuses, a \in arrays }
  \cup { [status |-> st, body |-> b] : st \in Statuses, b \in { ObjectBody, MalformedBody } }
  \cup { NetworkError }

\* response.ok
Ok(r) == r.status >= 200 /\ r.status <= 299


(* ------------------------- call outcomes ------------------------------- *)
\* How an async function settles: resolved with a value or rejected.
Return(v) == [kind |-> "return", error |-> "", status |-> 0, json |-> "array", value |-> v]
ReturnKey(k) == [kind |-> "return", error |-> "", status |-> 0, json |-> "number", value |-> <<k>>]
ReturnObject == [kind |-> "return", error |-> "", status |-> 0, json |-> "object", value |-> <<>>]
Throw(e) == [kind |-> "throw", error |-> e, status |-> 0, json |-> "", value |-> <<>>]
ThrowStatus(st) == [kind |-> "throw", error |-> "HTTP error! status", status |-> st, json |-> "", value |-> <<>>]
Pending == [kind |-> "pending", error |-> "", status |-> 0, json |-> "", value |-> <<>>]

\* `await fetch(url)` followed by `res.json()` on a value that must support
\* the array method used next: rejects when the fetch rejects or the body is
\* not JSON; a JSON value that is no array makes list.find / data.map /
\* laps.forEach throw a TypeError.  The HTTP status is never looked at.
JsonArrayFailure(r) ==
  IF r.status = 0 THEN "NetworkError"
  ELSE IF r.body.json = "malformed" THEN "SyntaxError"
  ELSE IF r.body.json # "array" THEN "TypeError"
  ELSE ""

(* --------------------------- key resolver ------------------------------ *)
\* Array.prototype.find over the names: index of the first element, scanning
\* from the head, whose name matches; 0 when there is none.
RECURSIVE findFrom(_, _, _)
findFrom(list, frag, i) ==
  IF i > Len(list) THEN 0
  ELSE IF NameMatches(list[i].name, frag) THEN i
  ELSE findFrom(list, frag, i + 1)

\* A scan from the tail: the last matching element.
RECURSIVE findLastFrom(_, _, _)
findLastFrom(list, frag, i) ==
  IF i < 1 THEN 0
  ELSE IF NameMatches(list[i].name, frag) THEN i
  ELSE findLastFrom(list, frag, i - 1)

findLast(list, frag) == findLastFrom(list, frag, Len(list))

find(list, frag) == findFrom(list, frag, 1)

\* A getMeetingKey that falls back to key 0 when nothing matches.
getMeetingKeyDefault(r, event) ==
  IF JsonArrayFailure(r) # "" THEN Throw(JsonArrayFailure(r))
  ELSE LET list == r.body.items
           i == find(list, event)
       IN IF i = 0 THEN ReturnKey(0) ELSE ReturnKey(list[i].meeting_key)

\* getMeetingKey, from the arrival of the /meetings response on.
getMeetingKey(r, event) ==
  IF JsonArrayFailure(r) # "" THEN Throw(JsonArrayFailure(r))
  ELSE LET list == r.body.items
           i == find(list, event)
       IN IF i = 0 THEN Throw("Meeting not found") ELSE ReturnKey(list[i].meeting_key)

\* getSessionKey, from the arrival of the /sessions response on.
getSessionKey(r, session) ==
  IF JsonArrayFailure(r) # "" THEN Throw(JsonArrayFailure(r))
  ELSE LET list == r.body.items
           i == find(list, session)
       IN IF i = 0 THEN Throw("Session not found") ELSE ReturnKey(list[i].session_key)

(* ------------------------ telemetry projections ------------------------ *)
TelemetryFns ==
  { "fetchTelemetrySpeed", "fetchTelemetryGear", "fetchTelemetryThrottle",
    "fetchTelemetryBrake", "fetchTelemetryRPM", "fetchTelemetryDRS" }

\* p.drs == '1'
DrsActiveLoose(v) == LooseEquals(v, Str("1"))

\* p.drs === '1'
DrsActive(v) == StrictEquals(v, Str("1"))

\* The arrow function handed to data.map by each fetchTelemetry* function.
Project(fn, p) ==
  CASE fn = "fetchTelemetrySpeed" -> [Distance |-> Get(p, "distance"), Speed |-> Get(p, "speed")]
    [] fn = "fetchTelemetryGear" ->
         [X |-> Get(p, "longitude"), Y |-> Get(p, "latitude"), nGear |-> Get(p, "n_gear")]
    [] fn = "fetchTelemetryThrottle" -> [Distance |-> Get(p, "distance"), Throttle |-> Get(p, "throttle")]
    [] fn = "fetchTelemetryBrake" -> [Distance |-> Get(p, "distance"), Brake |-> Get(p, "brake")]
    [] fn = "fetchTelemetryRPM" -> [Distance |-> Get(p, "distance"), RPM |-> Get(p, "rpm")]
    [] fn = "fetchTelemetryDRS" ->
         [Distance |-> Get(p, "distance"), DRS |-> IF DrsActive(Get(p, "drs")) THEN Num(1) ELSE Num(0)]

\* A projection that drops a sample equal to its predecessor.
RECURSIVE mapDedup(_, _)
mapDedup(fn, data) ==
  IF Len(data) <= 1 THEN [i \in 1..Len(data) |-> Project(fn, data[i])]
  ELSE LET front == mapDedup(fn, SubSeq(data, 1, Len(data) - 1))
           last == Project(fn, data[Len(data)])
       IN IF front[Len(front)] = last THEN front ELSE Append(front, last)

\* data.map(p => ...)
map(fn, data) == [i \in 1..Len(data) |-> Project(fn, data[i])]

\* fetchTelemetry*, from the arrival of the /car_data response on.
fetchTelemetry(fn, r) ==
  IF JsonArrayFailure(r) # "" THEN Throw(JsonArrayFailure(r))
  ELSE Return(map(fn, r.body.items))

\* fetchCarData, from the arrival of the /car_data response on.
fetchCarData(r) ==
  IF r.status = 0 THEN Throw("NetworkError")
  ELSE IF ~Ok(r) THEN ThrowStatus(r.status)
  ELSE IF r.body.json = "malformed" THEN Throw("SyntaxError")
  ELSE IF r.body.json = "array" THEN Return(r.body.items)
  ELSE ReturnObject

\* fetchLapPositions, from the arrival of the /position_data response on:
\* the parsed body is returned as it is.
fetchLapPositions(r) ==
  IF r.status = 0 THEN Throw("NetworkError")
  ELSE IF r.body.json = "malformed" THEN Throw("SyntaxError")
  ELSE IF r.body.json = "array" THEN Return(r.body.items)
  ELSE ReturnObject

(* ---------------------------- lap-time merge --------------------------- *)
\* all.find(x => x.LapNumber === lap.lap_number): index of the first such
\* row, 0 when there is none.
RECURSIVE findRowFrom(_, _, _)
findRowFrom(all, n, i) ==
  IF i > Len(all) THEN 0
  ELSE IF StrictEquals(all[i]["LapNumber"], n) THEN i
  ELSE findRowFrom(all, n, i + 1)

\* e[d] = v
SetColumn(e, d, v) == (d :> v) @@ e

\* { LapNumber: n, [d]: v }
NewRow(n, d, v) == (d :> v) @@ ("LapNumber" :> n)

\* A forEach body that overwrites the found row with a fresh one.
forEachLapReplace(all, d, lap) ==
  LET n == Get(lap, "lap_number")
      v == Get(lap, "lap_time")
      i == findRowFrom(all, n, 1)
  IN IF i # 0 THEN [all EXCEPT ![i] = NewRow(n, d, v)]
     ELSE Append(all, NewRow(n, d, v))

\* The body of laps.forEach for one lap of driver d.
forEachLap(all, d, lap) ==
  LET n == Get(lap, "lap_number")
      v == Get(lap, "lap_time")
      i == findRowFrom(all, n, 1)
  IN IF i # 0 THEN [all EXCEPT ![i] = SetColumn(all[i], d, v)]
     ELSE Append(all, NewRow(n, d, v))


(* ------------------------------ state ---------------------------------- *)
VARIABLES
  pc,        \* where the running call is suspended: "idle", "getMeetingKey",
             \* "getSessionKey", "for", "laps", "car_data", "position_data", "done"
  args,      \* the arguments of the running call
  mk,        \* const mk (0 while unset)
  sk,        \* const sk (0 while unset)
  all,       \* fetchLapTimes: the table under construction
  di,        \* fetchLapTimes: how many drivers the for-of loop has taken
  laps,      \* fetchLapTimes: the laps of the current driver forEach has yet to visit
  inflight,  \* requests sent and not yet answered
  log,       \* requests of the running call, in the order they were issued
  res,       \* the response that arrived last
  resPath,   \* the resource path of the request it answers ("" before any)
  lapFetchFailed, \* fetchLapTimes: some /laps response so far was no HTTP success
  result,    \* how the running call settled
  issued,    \* how many /meetings and /sessions requests are on record
  history    \* the getMeetingKey invocations on record, with their outcome

vars == << pc, args, mk, sk, all, di, laps, inflight, log, res, resPath, lapFetchFailed, result, issued, history >>

Paths == { "meetings", "sessions" }

Request(path, key, driver, lap) == [path |-> path, key |-> key, driver |-> driver, lap |-> lap]

NoArgs == [fn |-> "", year |-> 0, event |-> <<>>, session |-> <<>>, drivers |-> <<>>, lap |-> 0]

NoResponse == [status |-> 0, body |-> ArrayBody(<<>>)]

\* Upstream lap records carry the fields of LapData that the merge could read.
LapSet == { [lap_number |-> Num(n), lap_duration |-> Num(t)] : n \in LapNumbers, t \in { 901, 910 } }

\* Upstream car_data samples: the CarDataPoint fields the projections read;
\* drs is any JSON value, or absent.
DrsValues == { Str("1"), Str("0"), Str("8"), Num(0), Num(1), Null }

Sample(k, v) ==
  [speed |-> Num(300 + k), throttle |-> Num(k), brake |-> Num(k - 1), rpm |-> Num(9000 + k),
   n_gear |-> Num(k), drs |-> v]

SampleNoDrs(k) ==
  [speed |-> Num(300 + k), throttle |-> Num(k), brake |-> Num(k - 1), rpm |-> Num(9000 + k),
   n_gear |-> Num(k)]

SampleSet == { Sample(1, v) : v \in DrsValues } \cup { SampleNoDrs(1), Sample(2, Str("1")) }

MeetingResponses == Responses(SeqsUpTo(MeetingSet, MaxList))
SessionResponses == Responses(SeqsUpTo(SessionSet, MaxList))
LapResponses == Responses(SeqsUpTo(LapSet, MaxLaps))
CarDataResponses == Responses(SeqsUpTo(SampleSet, MaxSamples))
PositionResponses == Responses({ << >>, << [LapNumber |-> Num(1)] >> })

DriverArgs(fn) ==
  IF fn = "fetchLapTimes" THEN SeqsUpTo(DriverSet, MaxDrivers)
  ELSE { << d >> : d \in DriverSet }

Count(path) == Len(SelectSeq(log, LAMBDA r : r.path = path))

Bump(path, reqs) == [p \in Paths |-> IF p = path THEN issued[p] + Len(reqs) ELSE issued[p]]

Range(seq) == { seq[i] : i \in 1..Len(seq) }

(* ------------------------ requests the code issues --------------------- *)
\* A getMeetingKey that fetches only when no /meetings request is on record.
meetingsFetchCached(year) ==
  IF issued["meetings"] > 0 THEN << >> ELSE << Request("meetings", year, "", 0) >>

\* fetch(`${OPENF1_BASE}/meetings?year=${year}`)
meetingsFetch(year) == << Request("meetings", year, "", 0) >>

\* fetch(`${OPENF1_BASE}/sessions?meeting_key=${meetingKey}`)
sessionsFetch(meetingKey) == << Request("sessions", meetingKey, "", 0) >>

\* The fetches of all remaining drivers, started together.
lapsFetchAll(sessionKey, drivers, i) ==
  [j \in 1..(Len(drivers) - i + 1) |-> Request("laps", sessionKey, drivers[i + j - 1], 0)]

\* The fetch of the i-th iteration of `for (const d of drivers)`.
lapsFetch(sessionKey, drivers, i) == << Request("laps", sessionKey, drivers[i], 0) >>

\* fetch(`${OPENF1_BASE}/car_data?session_key=${sk}&driver_number=${driver}&lap_number=${lap}`)
carDataFetch(sessionKey, driver, lap) == << Request("car_data", sessionKey, driver, lap) >>

\* fetch(`${OPENF1_BASE}/position_data?session_key=${sk}`)
positionDataFetch(sessionKey) == << Request("position_data", sessionKey, "", 0) >>

(* ------------------------------ actions -------------------------------- *)
Init ==
  /\ pc = "idle"
  /\ args = NoArgs
  /\ mk = 0
  /\ sk = 0
  /\ all = << >>
  /\ di = 0
  /\ laps = << >>
  /\ inflight = {}
  /\ log = << >>
  /\ res = NoResponse
  /\ resPath = ""
  /\ lapFetchFailed = FALSE
  /\ result = Pending
  /\ issued = [p \in Paths |-> 0]
  /\ history = << >>

\* A call of fetchLapTimes or of a fetchTelemetry* function, up to the first
\* await: getMeetingKey sends the /meetings request.  The lap argument of a
\* telemetry call only goes into the /car_data URL.
CallAggregate ==
  /\ pc = "idle"
  /\ \E fn \in { "fetchLapTimes" } \cup TelemetryFns, year \in Years,
        event \in EventFragments, session \in SessionFragments :
       \E drivers \in DriverArgs(fn) :
         LET reqs == meetingsFetch(year)
         IN /\ args' = [fn |-> fn, year |-> year, event |-> event, session |-> session,
                        drivers |-> drivers, lap |-> IF fn = "fetchLapTimes" THEN 0 ELSE 1]
            /\ inflight' = Range(reqs)
            /\ log' = reqs
            /\ issued' = Bump("meetings", reqs)
  /\ pc' = "getMeetingKey"
  /\ mk' = 0
  /\ sk' = 0
  /\ all' = << >>
  /\ di' = 0
  /\ laps' = << >>
  /\ res' = NoResponse
  /\ resPath' = ""
  /\ lapFetchFailed' = FALSE
  /\ result' = Pending
  /\ UNCHANGED history

\* A call of fetchLapPositions, up to the first await.
CallLapPositions ==
  /\ pc = "idle"
  /\ \E year \in Years, event \in EventFragments, session \in SessionFragments :
       LET reqs == meetingsFetch(year)
       IN /\ args' = [NoArgs EXCEPT !.fn = "fetchLapPositions", !.year = year,
                                    !.event = event, !.session = session]
          /\ inflight' = Range(reqs)
          /\ log' = reqs
          /\ issued' = Bump("meetings", reqs)
  /\ pc' = "getMeetingKey"
  /\ mk' = 0
  /\ sk' = 0
  /\ all' = << >>
  /\ di' = 0
  /\ laps' = << >>
  /\ res' = NoResponse
  /\ resPath' = ""
  /\ lapFetchFailed' = FALSE
  /\ result' = Pending
  /\ UNCHANGED history

\* A call of fetchCarData(driverNumber, sessionKey), up to its await.  The
\* optional speedFilter only adds a query parameter.
CallFetchCarData ==
  /\ pc = "idle"
  /\ \E driver \in DriverSet, sessionKey \in Keys :
       LET reqs == carDataFetch(sessionKey, driver, 0)
       IN /\ args' = [NoArgs EXCEPT !.fn = "fetchCarData", !.drivers = << driver >>]
          /\ sk' = sessionKey
          /\ inflight' = Range(reqs)
          /\ log' = reqs
          /\ issued' = issued
  /\ pc' = "car_data"
  /\ mk' = 0
  /\ all' = << >>
  /\ di' = 0
  /\ laps' = << >>
  /\ res' = NoResponse
  /\ resPath' = ""
  /\ lapFetchFailed' = FALSE
  /\ result' = Pending
  /\ UNCHANGED history

\* The /meetings response arrives: the rest of getMeetingKey, then the caller
\* goes on into getSessionKey, which sends the /sessions request.
MeetingsArrive ==
  /\ pc = "getMeetingKey"
  /\ \E req \in inflight, r \in MeetingResponses :
       LET out == getMeetingKey(r, args.event)
       IN /\ req.path = "meetings"
          /\ res' = r
          /\ resPath' = req.path
          /\ IF out.kind = "return"
             THEN LET reqs == sessionsFetch(out.value[1])
                  IN /\ mk' = out.value[1]
                     /\ pc' = "getSessionKey"
                     /\ inflight' = (inflight \ { req }) \cup Range(reqs)
                     /\ log' = log \o reqs
                     /\ issued' = Bump("sessions", reqs)
                     /\ result' = result
                     /\ history' = Append(history, [year |-> args.year, event |-> args.event,
                                                    kind |-> "return", key |-> out.value[1]])
             ELSE /\ pc' = "done"
                  /\ result' = out
                  /\ inflight' = inflight \ { req }
                  /\ history' = Append(history, [year |-> args.year, event |-> args.event,
                                                 kind |-> "throw", key |-> 0])
                  /\ UNCHANGED << mk, log, issued >>
  /\ UNCHANGED << args, sk, all, di, laps, lapFetchFailed >>

\* The /sessions response arrives: the rest of getSessionKey, then the caller
\* goes on: fetchLapTimes enters its for-of loop, a fetchTelemetry* function
\* sends the /car_data request, fetchLapPositions the /position_data request.
SessionsArrive ==
  /\ pc = "getSessionKey"
  /\ \E req \in inflight, r \in SessionResponses :
       LET out == getSessionKey(r, args.session)
       IN /\ req.path = "sessions"
          /\ res' = r
          /\ resPath' = req.path
          /\ IF out.kind # "return"
             THEN /\ pc' = "done"
                  /\ result' = out
                  /\ inflight' = inflight \ { req }
                  /\ UNCHANGED << sk, log, issued >>
             ELSE IF args.fn = "fetchLapTimes"
             THEN /\ sk' = out.value[1]
                  /\ pc' = "for"
                  /\ inflight' = inflight \ { req }
                  /\ UNCHANGED << log, issued, result >>
             ELSE IF args.fn = "fetchLapPositions"
             THEN LET reqs == positionDataFetch(out.value[1])
                  IN /\ sk' = out.value[1]
                     /\ pc' = "position_data"
                     /\ inflight' = (inflight \ { req }) \cup Range(reqs)
                     /\ log' = log \o reqs
                     /\ issued' = issued
                     /\ result' = result
             ELSE LET reqs == carDataFetch(out.value[1], args.drivers[1], args.lap)
                  IN /\ sk' = out.value[1]
                     /\ pc' = "car_data"
                     /\ inflight' = (inflight \ { req }) \cup Range(reqs)
                     /\ log' = log \o reqs
                     /\ issued' = issued
                     /\ result' = result
  /\ UNCHANGED << args, mk, all, di, laps, lapFetchFailed, history >>

\* The head of `for (const d of drivers)`, reached once forEach has visited
\* every lap of the previous driver: the next driver's /laps request, or
\* `return all` when the drivers are exhausted.
ForNext ==
  /\ pc = "for"
  /\ laps = << >>
  /\ IF di < Len(args.drivers)
     THEN LET reqs == lapsFetch(sk, args.drivers, di + 1)
          IN /\ di' = di + 1
             /\ pc' = "laps"
             /\ inflight' = inflight \cup Range(reqs)
             /\ log' = log \o reqs
             /\ issued' = issued
             /\ result' = result
     ELSE /\ pc' = "done"
          /\ result' = Return(all)
          /\ UNCHANGED << di, inflight, log, issued >>
  /\ UNCHANGED << args, mk, sk, all, laps, res, resPath, lapFetchFailed, history >>

\* The /laps response of the current driver arrives and is parsed.
LapsArrive ==
  /\ pc = "laps"
  /\ \E req \in inflight, r \in LapResponses :
       /\ req.path = "laps"
       /\ req.driver = args.drivers[di]
       /\ res' = r
       /\ resPath' = req.path
       /\ lapFetchFailed' = (lapFetchFailed \/ ~Ok(r))
       /\ inflight' = inflight \ { req }
       /\ IF JsonArrayFailure(r) # ""
          THEN /\ pc' = "done"
               /\ result' = Throw(JsonArrayFailure(r))
               /\ laps' = laps
          ELSE /\ pc' = "for"
               /\ laps' = r.body.items
               /\ result' = result
  /\ UNCHANGED << args, mk, sk, all, di, log, issued, history >>

\* One iteration of laps.forEach.
FoldLap ==
  /\ pc = "for"
  /\ laps # << >>
  /\ all' = forEachLap(all, args.drivers[di], Head(laps))
  /\ laps' = Tail(laps)
  /\ UNCHANGED << pc, args, mk, sk, di, inflight, log, res, resPath, lapFetchFailed, result, issued, history >>

\* The /car_data response arrives: the rest of fetchTelemetry* or fetchCarData.
CarDataArrive ==
  /\ pc = "car_data"
  /\ \E req \in inflight, r \in CarDataResponses :
       /\ req.path = "car_data"
       /\ res' = r
       /\ resPath' = req.path
       /\ inflight' = inflight \ { req }
       /\ result' = IF args.fn = "fetchCarData" THEN fetchCarData(r) ELSE fetchTelemetry(args.fn, r)
  /\ pc' = "done"
  /\ UNCHANGED << args, mk, sk, all, di, laps, log, lapFetchFailed, issued, history >>

\* The /position_data response arrives: the rest of fetchLapPositions.
PositionDataArrive ==
  /\ pc = "position_data"
  /\ \E req \in inflight, r \in PositionResponses :
       /\ req.path = "position_data"
       /\ res' = r
       /\ resPath' = req.path
       /\ inflight' = inflight \ { req }
       /\ result' = fetchLapPositions(r)
  /\ pc' = "done"
  /\ UNCHANGED << args, mk, sk, all, di, laps, log, lapFetchFailed, issued, history >>

\* The call's locals, dropped when its promise has settled.
DropLocals ==
  /\ args' = NoArgs
  /\ mk' = 0
  /\ sk' = 0
  /\ all' = << >>
  /\ di' = 0
  /\ laps' = << >>
  /\ log' = << >>
  /\ res' = NoResponse
  /\ resPath' = ""
  /\ lapFetchFailed' = FALSE
  /\ result' = Pending
  /\ UNCHANGED inflight

\* The caller has the outcome; nothing of the call is left behind.
Settle ==
  /\ pc = "done"
  /\ pc' = "idle"
  /\ DropLocals
  /\ issued' = [p \in Paths |-> 0]
  /\ history' = << >>

\* The caller has the outcome and goes on to a further call; what was
\* requested and resolved so far stays on record.
SettleNext ==
  /\ pc = "done"
  /\ Len(history) < MaxCalls
  /\ pc' = "idle"
  /\ DropLocals
  /\ UNCHANGED << issued, history >>

Next ==
  \/ CallAggregate
  \/ CallLapPositions
  \/ CallFetchCarData
  \/ MeetingsArrive
  \/ SessionsArrive
  \/ ForNext
  \/ LapsArrive
  \/ FoldLap
  \/ CarDataArrive
  \/ PositionDataArrive
  \/ Settle

\* One call at a time, each looked at on its own.
Spec == Init /\ [][Next]_vars

NextCalls ==
  \/ CallLapPositions
  \/ MeetingsArrive
  \/ SessionsArrive
  \/ PositionDataArrive
  \/ SettleNext

\* Up to MaxCalls calls of fetchLapPositions in a row, each resolving a meeting
\* and a session, with the record of all of them.
SpecCalls == Init /\ [][NextCalls]_vars


(* ------------------------------ claims --------------------------------- *)
IsAggregate == args.fn \in { "fetchLapTimes" } \cup TelemetryFns

Items == res.body.items

IsArray == res.status # 0 /\ res.body.json = "array"

Matching(frag) == { i \in 1..Len(Items) : NameMatches(Items[i].name, frag) }

\* i is the least index of the last response's list whose name matches frag.
IsFirstMatch(i, frag) == i \in Matching(frag) /\ \A j \in Matching(frag) : i <= j

\* The resolver that produced the last response has returned (not thrown).
MeetingResolved == resPath = "meetings" /\ pc = "getSessionKey"

\* C1: whenever some name of the returned list contains the fragment
\* case-insensitively, getMeetingKey returns the meeting_key of the first such
\* meeting in list order (never a later match's), and getSessionKey returns
\* the session_key of the first such session of the list for that meeting.
C1_FirstMatchWins ==
  /\ (resPath = "meetings" /\ IsArray /\ Matching(args.event) # {}) =>
       /\ pc = "getSessionKey"
       /\ \E i \in 1..Len(Items) : IsFirstMatch(i, args.event) /\ mk = Items[i].meeting_key
  /\ (resPath = "sessions" /\ IsArray /\ Matching(args.session) # {}) =>
       /\ result.kind # "throw"
       /\ \E i \in 1..Len(Items) : IsFirstMatch(i, args.session) /\ sk = Items[i].session_key

\* Two meetings match, with different keys, and the first one's key was taken.
C1_Witness ==
  /\ MeetingResolved
  /\ Len(Items) = 2
  /\ Matching(args.event) = { 1, 2 }
  /\ Items[1].meeting_key # Items[2].meeting_key
  /\ mk = Items[1].meeting_key

PathsBefore(i) == { log[j].path : j \in 1..(i - 1) }

\* C2: in an aggregate call, a meetings or sessions list with no matching name
\* ends the call with the not-found error and no laps or car_data request is
\* issued; every laps/car_data request comes after the sessions request and
\* carries the resolved session key, and the sessions request comes after the
\* meetings request and carries the resolved meeting key.
C2_ResolveBeforeFetch ==
  IsAggregate =>
    /\ (resPath = "meetings" /\ IsArray /\ Matching(args.event) = {}) =>
         /\ pc = "done"
         /\ result.kind = "throw"
         /\ result.error = "Meeting not found"
         /\ Count("sessions") = 0
    /\ (resPath = "sessions" /\ IsArray /\ Matching(args.session) = {}) =>
         /\ pc = "done"
         /\ result.kind = "throw"
         /\ result.error = "Session not found"
    /\ (result.kind = "throw" /\ result.error \in { "Meeting not found", "Session not found" }) =>
         /\ Count("laps") = 0
         /\ Count("car_data") = 0
         /\ inflight = {}
    /\ \A i \in 1..Len(log) :
         /\ log[i].path = "meetings" => i = 1
         /\ log[i].path = "sessions" =>
              /\ PathsBefore(i) = { "meetings" }
              /\ mk \in Keys
              /\ log[i].key = mk
         /\ log[i].path \in { "laps", "car_data" } =>
              /\ { "meetings", "sessions" } \subseteq PathsBefore(i)
              /\ sk \in Keys
              /\ log[i].key = sk

\* The meeting resolved, no session name matched: not-found, and nothing
\* further was requested.
C2_Witness ==
  /\ IsAggregate
  /\ pc = "done"
  /\ resPath = "sessions"
  /\ IsArray
  /\ Len(Items) = 2
  /\ result.error = "Session not found"
  /\ Len(log) = 2

\* The current driver's laps have all been folded; res is that driver's
\* response.
DriverFolded ==
  /\ args.fn = "fetchLapTimes"
  /\ resPath = "laps"
  /\ IsArray
  /\ Ok(res)
  /\ (pc = "for" /\ laps = << >>) \/ (pc = "done" /\ result.kind = "return")

\* The durations the current driver's lap list gives for lap number n.
DurationsOf(n) == { Items[j]["lap_duration"] : j \in { k \in 1..Len(Items) : Items[k]["lap_number"] = n } }

\* C3: the merged table has exactly one row per distinct lap number seen, and
\* the row of lap n holds in column d the lap duration of driver d's lap n
\* when d has that lap and no value for d otherwise.  Stated for each driver d
\* at the moment d's lap list has been folded (C9 keeps it true afterwards):
\* every lap number of d's list has exactly one row, that row's column d is a
\* duration d's list gives for that lap, and a row whose lap d does not have
\* has no column d unless d was taken before.
C3_MergedTable ==
  DriverFolded =>
    LET d == args.drivers[di]
        table == IF pc = "done" THEN result.value ELSE all
    IN /\ \A i, j \in 1..Len(table) : table[i]["LapNumber"] = table[j]["LapNumber"] => i = j
       /\ \A j \in 1..Len(Items) : \E i \in 1..Len(table) : table[i]["LapNumber"] = Items[j]["lap_number"]
       /\ \A i \in 1..Len(table) :
            IF DurationsOf(table[i]["LapNumber"]) # {}
            THEN d \in DOMAIN table[i] /\ table[i][d] \in DurationsOf(table[i]["LapNumber"])
            ELSE (d \in DOMAIN table[i] => \E k \in 1..(di - 1) : args.drivers[k] = d)

\* C4: if the lap fetch of some driver fails, fetchLapTimes fails: the caller
\* gets an error, never a table.
C4_FailedFetchAbortsMerge ==
  (pc = "done" /\ args.fn = "fetchLapTimes" /\ lapFetchFailed) => result.kind = "throw"

\* C5: a car_data response with a non-success HTTP status makes the telemetry
\* call fail with an error carrying that status, never a sequence built from
\* the body; a success response with an empty list gives an empty sequence.
C5_StatusSurfaces ==
  (pc = "done" /\ resPath = "car_data" /\ res.status # 0) =>
    /\ ~Ok(res) => (result.kind = "throw" /\ result.status = res.status)
    /\ (Ok(res) /\ IsArray /\ Items = << >>) => (result.kind = "return" /\ result.value = << >>)

TelemetryReturned == pc = "done" /\ args.fn \in TelemetryFns /\ result.kind = "return"

\* C6: fetchTelemetryDRS outputs DRS = 1 for a sample whose drs is the string
\* "1" and DRS = 0 for every other value, present or absent; the DRS field is
\* always 0 or 1.
C6_DrsNormalised ==
  (TelemetryReturned /\ args.fn = "fetchTelemetryDRS") =>
    /\ Len(result.value) = Len(Items)
    /\ \A i \in 1..Len(Items) :
         /\ result.value[i]["DRS"] \in { Num(0), Num(1) }
         /\ result.value[i]["DRS"] = Num(1) <=>
              ("drs" \in DOMAIN Items[i] /\ Items[i]["drs"].t = "string" /\ Items[i]["drs"].s = "1")

\* The number 1 is inactive, the string "1" active.
C6_Witness ==
  /\ TelemetryReturned
  /\ args.fn = "fetchTelemetryDRS"
  /\ Len(Items) = 2
  /\ Get(Items[1], "drs") = Num(1)
  /\ Get(Items[2], "drs") = Str("1")
  /\ result.value[1]["DRS"] = Num(0)
  /\ result.value[2]["DRS"] = Num(1)

\* The metric field of each projection's output and the raw field it reads.
MetricField ==
  [fn \in TelemetryFns |->
     CASE fn = "fetchTelemetrySpeed" -> << "Speed", "speed" >>
       [] fn = "fetchTelemetryGear" -> << "nGear", "n_gear" >>
       [] fn = "fetchTelemetryThrottle" -> << "Throttle", "throttle" >>
       [] fn = "fetchTelemetryBrake" -> << "Brake", "brake" >>
       [] fn = "fetchTelemetryRPM" -> << "RPM", "rpm" >>
       [] fn = "fetchTelemetryDRS" -> << "DRS", "drs" >>]

\* C7: every metric projection returns a sequence as long as the raw sample
\* sequence whose i-th element is made from the i-th raw sample: nothing is
\* filtered, reordered or deduplicated.
C7_OrderAndLengthPreserved ==
  TelemetryReturned =>
    /\ Len(result.value) = Len(Items)
    /\ \A i \in 1..Len(Items) :
         /\ result.value[i] = Project(args.fn, Items[i])
         /\ args.fn # "fetchTelemetryDRS" =>
              result.value[i][MetricField[args.fn][1]] = Get(Items[i], MetricField[args.fn][2])

\* Two equal raw samples both appear in the output.
C7_Witness ==
  /\ TelemetryReturned
  /\ args.fn = "fetchTelemetrySpeed"
  /\ Len(Items) = 2
  /\ Get(Items[1], "speed") = Get(Items[2], "speed")
  /\ Len(result.value) = 2

LapRequests == SelectSeq(log, LAMBDA r : r.path = "laps")

\* C8: within one fetchLapTimes call the lap requests go out in the order of
\* the driver list, one at a time: the request of the next driver is issued
\* only after the previous driver's response has arrived and every lap of it
\* has been folded, so at most one lap request is outstanding.
C8_SequentialLapFetches ==
  args.fn = "fetchLapTimes" =>
    /\ Len(LapRequests) = di
    /\ di <= Len(args.drivers)
    /\ \A i \in 1..Len(LapRequests) :
         LapRequests[i].driver = args.drivers[i] /\ LapRequests[i].key = sk
    /\ Cardinality({ r \in inflight : r.path = "laps" }) <= 1
    /\ (\E r \in inflight : r.path = "laps") => (pc = "laps" /\ laps = << >>)
    /\ pc = "laps" =>
         /\ inflight = { Request("laps", sk, args.drivers[di], 0) }
         /\ di >= 1

\* The second driver's request is outstanding and the first driver's laps are
\* in the table.
C8_Witness ==
  /\ args.fn = "fetchLapTimes"
  /\ pc = "laps"
  /\ di = 2
  /\ args.drivers[1] # args.drivers[2]
  /\ Len(all) = 2
  /\ inflight # {}

FoldStep == pc = "for" /\ laps # << >>

NoSharedLapNumber == \A i, j \in 1..Len(all) : all[i]["LapNumber"] = all[j]["LapNumber"] => i = j

RowKept(old, new, d) ==
  /\ new["LapNumber"] = old["LapNumber"]
  /\ DOMAIN old \subseteq DOMAIN new
  /\ DOMAIN new \subseteq DOMAIN old \cup { d }
  /\ \A k \in DOMAIN old \ { d } : new[k] = old[k]

FoldStepAppendOnly ==
  FoldStep =>
    LET d == args.drivers[di]
    IN /\ \A i \in 1..Len(all) : i <= Len(all') /\ RowKept(all[i], all'[i], d)
       /\ \/ /\ Len(all') = Len(all)
             /\ Cardinality({ i \in 1..Len(all) : all'[i] # all[i] }) <= 1
          \/ /\ Len(all') = Len(all) + 1
             /\ \A i \in 1..Len(all) : all'[i] = all[i]
             /\ DOMAIN all'[Len(all')] = { "LapNumber", d }

\* C9: a fold step keeps every existing row at its index with its LapNumber
\* and every other driver's column, and changes only the current driver's
\* column of one row or appends one row; no two rows share a LapNumber.
C9_FoldAppendOnly == [][FoldStepAppendOnly]_vars /\ []NoSharedLapNumber

\* A row created by the first driver has been updated in place by the second.
C9_Witness ==
  /\ args.fn = "fetchLapTimes"
  /\ di = 2
  /\ Len(all) = 2
  /\ \E i \in 1..Len(all) : { "1", "2" } \subseteq DOMAIN all[i]

\* C10: every getMeetingKey and getSessionKey invocation issues exactly one
\* request and nothing is cached: after k resolutions k meetings requests have
\* been issued, and a resolution's result comes from the response to its own
\* request.
C10_NoCaching ==
  /\ issued["meetings"] = Len(history) + (IF pc = "getMeetingKey" THEN 1 ELSE 0)
  /\ issued["sessions"] = Len(SelectSeq(history, LAMBDA h : h.kind = "return"))
  /\ pc = "getMeetingKey" => Cardinality({ r \in inflight : r.path = "meetings" }) = 1
  /\ pc = "getSessionKey" => Cardinality({ r \in inflight : r.path = "sessions" }) = 1
  /\ (resPath = "meetings" /\ history # << >>) =>
       LET h == history[Len(history)]
       IN /\ h.kind = "return" <=> (IsArray /\ Matching(h.event) # {})
          /\ h.kind = "return" => \E i \in 1..Len(Items) : IsFirstMatch(i, h.event) /\ h.key = Items[i].meeting_key

\* The same (year, event) pair resolved twice, to two different keys.
C10_Witness ==
  /\ Len(history) = 2
  /\ history[1].kind = "return"
  /\ history[2].kind = "return"
  /\ history[1].year = history[2].year
  /\ history[1].event = history[2].event
  /\ history[1].key # history[2].key
  /\ issued["meetings"] = 2

====
